---- MODULE Spec2Model ----
(***************************************************************************)
(* A model of easyesn's BaseESN (src/src/easyesn/easyesn/BaseESN.py):      *)
(* construction of the reservoir, the setters, the state update, sequence  *)
(* propagation and the transient-time estimation.                          *)
(*                                                                         *)
(* Floats are modelled in fixed point: the integer v stands for v/One.     *)
(* The IEEE specials that numpy's division produces (inf, -inf, nan) are   *)
(* integers outside the finite range.  numpy arrays of shape (n,1) and     *)
(* (n,) are sequences of length n; matrices are sequences of rows.         *)
(* Python's None is the record [isNone |-> TRUE].                          *)
(***************************************************************************)
EXTENDS Integers, Sequences, FiniteSets, TLC

VARIABLES
    rnd,    \* the process-wide random generators (numpy.random and the backend's)
    esn,    \* the BaseESN instance under study
    pc,     \* position of the caller: "idle", or "returned" while it holds a result
    ret,    \* the call in flight: its arguments, locals and result
    twin    \* a second run of the same program (seed-determinism study)

vars == <<rnd, esn, pc, ret, twin>>

-----------------------------------------------------------------------------
(* Bounds of the model *)

MaxLen == 2         \* longest input / output sequence
RndPeriod == 8      \* number of states of a modelled random generator
MaxProximity == 2   \* largest proximityLength
MaxEstLen == 4      \* longest driving sequence of the transient estimation

-----------------------------------------------------------------------------
(* Fixed-point floats *)

One == 4
Half == One \div 2

Huge == One * One * One * One * One * One
PosInf == Huge
NegInf == -Huge
NaN == Huge + Huge

IsNaN(v) == v = NaN
IsInf(v) == v = PosInf \/ v = NegInf
IsFinite(v) == ~IsNaN(v) /\ ~IsInf(v)

Abs(v) == IF v < 0 THEN -v ELSE v
Sign(v) == IF v < 0 THEN -1 ELSE IF v > 0 THEN 1 ELSE 0

\* integer quotient rounded toward zero
Trunc(n, d) == Sign(n) * Sign(d) * (Abs(n) \div Abs(d))

\* a * b of two floats
FMul(a, b) ==
    IF IsNaN(a) \/ IsNaN(b) THEN NaN
    ELSE IF IsInf(a) \/ IsInf(b)
         THEN IF a = 0 \/ b = 0 THEN NaN
              ELSE IF Sign(a) * Sign(b) > 0 THEN PosInf ELSE NegInf
         ELSE Trunc(a * b, One)

\* a / b of two floats when one of them is a numpy scalar or array: a zero
\* divisor gives inf or nan (and a warning), never an exception
NpDiv(a, b) ==
    IF IsNaN(a) \/ IsNaN(b) THEN NaN
    ELSE IF IsInf(a) THEN (IF IsInf(b) THEN NaN
                           ELSE IF Sign(a) * (IF b < 0 THEN -1 ELSE 1) > 0 THEN PosInf ELSE NegInf)
    ELSE IF IsInf(b) THEN 0
    ELSE IF b = 0 THEN (IF a = 0 THEN NaN ELSE IF a > 0 THEN PosInf ELSE NegInf)
    ELSE Trunc(a * One, b)

\* a + b of two floats
FAdd(a, b) ==
    IF IsNaN(a) \/ IsNaN(b) THEN NaN
    ELSE IF IsInf(a) THEN (IF IsInf(b) /\ a # b THEN NaN ELSE a)
    ELSE IF IsInf(b) THEN b
    ELSE a + b

RECURSIVE ISqrtFrom(_, _)
ISqrtFrom(n, r) == IF (r + 1) * (r + 1) > n THEN r ELSE ISqrtFrom(n, r + 1)
\* floor of the square root of a natural number
ISqrt(n) == ISqrtFrom(n, 0)
\* ceiling of the square root

-----------------------------------------------------------------------------
(* Python values *)

None == [isNone |-> TRUE]
Some(v) == [isNone |-> FALSE, v |-> v]
\* A float where an array may stand as well
Scalar(v) == [isNone |-> FALSE, v |-> v, scalar |-> TRUE]
IsScalar(o) == "scalar" \in DOMAIN o

-----------------------------------------------------------------------------
(* Arrays *)

Zeros(n) == [i \in 1..n |-> 0]
Ones(n) == [i \in 1..n |-> One]
ZerosMat(r, c) == [i \in 1..r |-> Zeros(c)]

RECURSIVE SumSeq(_)
SumSeq(s) == IF s = <<>> THEN 0 ELSE FAdd(Head(s), SumSeq(Tail(s)))

\* B.dot(M, v): matrix times column vector
Dot(M, v) == [i \in 1..Len(M) |-> SumSeq([j \in 1..Len(v) |-> FMul(M[i][j], v[j])])]

VecAdd(a, b) == [i \in 1..Len(a) |-> FAdd(a[i], b[i])]
VecScale(k, a) == [i \in 1..Len(a) |-> FMul(k, a[i])]
MatScale(M, k) == [i \in 1..Len(M) |-> VecScale(k, M[i])]

-----------------------------------------------------------------------------
(* The random generators.  numpy.random's module-level functions (rnd.seed,  *)
(* rnd.rand, ...) draw from one process-wide generator; B.rand draws from    *)
(* the backend's process-wide generator, which for the numpy backend is the  *)
(* same one (shared) and for another backend is a generator of its own that  *)
(* rnd.seed does not touch.                                                  *)

LcgNext(s) == (5 * s + 3) % RndPeriod
\* a float in [0, 1)
RandOut(s) == (s * One) \div RndPeriod

Generators == [np : 0..(RndPeriod - 1), be : 0..(RndPeriod - 1), shared : BOOLEAN]

\* rnd.seed(s)
NpSeed(g, s) == [g EXCEPT !.np = s % RndPeriod]

\* rnd.rand(): [v |-> the float drawn, g |-> the generators afterwards]
NpRand(g) == [v |-> RandOut(g.np), g |-> [g EXCEPT !.np = LcgNext(g.np)]]

\* B.rand()
BRand(g) ==
    IF g.shared THEN NpRand(g)
    ELSE [v |-> RandOut(g.be), g |-> [g EXCEPT !.be = LcgNext(g.be)]]

\* k draws in a row: [vals |-> the floats, g |-> the generators afterwards]
RECURSIVE Draws(_, _, _)
Draws(g, k, backend) ==
    IF k = 0 THEN [vals |-> <<>>, g |-> g]
    ELSE LET d == IF backend THEN BRand(g) ELSE NpRand(g)
             rest == Draws(d.g, k - 1, backend)
         IN  [vals |-> <<d.v>> \o rest.vals, g |-> rest.g]

\* a flat sequence of r*c values as an r x c matrix
Reshape(vals, r, c) == [i \in 1..r |-> [j \in 1..c |-> vals[(i - 1) * c + j]]]

-----------------------------------------------------------------------------
(* Construction *)

\* max(abs(eigenvalues(W))) of a 1x1 or 2x2 matrix, from the characteristic
\* polynomial; it is 0 exactly when every eigenvalue is 0 (W nilpotent)
MaxAbsEig(W) ==
    IF Len(W) = 1 THEN Abs(W[1][1])
    ELSE LET tr == W[1][1] + W[2][2]
             det == W[1][1] * W[2][2] - W[1][2] * W[2][1]
             disc == tr * tr - 4 * det
             v == IF disc >= 0 THEN (Abs(tr) + ISqrt(disc)) \div 2 ELSE ISqrt(det)
         IN  IF v = 0 /\ (tr # 0 \/ disc # 0) THEN 1 ELSE v

ReservoirSizes == {1, 2}

\* W[mask] = 0.0 where mask = draws > reservoirDensity
MaskMat(W, draws, density) ==
    [i \in 1..Len(W) |-> [j \in 1..Len(W) |->
        IF draws[(i - 1) * Len(W) + j] > density THEN 0 ELSE W[i][j]]]

\* numpy's shuffle of <<1, ..., m>> (rnd.permutation): for i = m down to 2,
\* swap position i with a position drawn from 1..i
RECURSIVE Shuffle(_, _, _)
Shuffle(p, i, g) ==
    IF i < 2 THEN [p |-> p, g |-> g]
    ELSE LET d == NpRand(g)
             j == 1 + (d.v * i) \div One
         IN  Shuffle([k \in 1..Len(p) |-> IF k = i THEN p[j] ELSE IF k = j THEN p[i] ELSE p[k]],
                     i - 1, d.g)

\* lines 262-269: per reservoir unit keep nb randomly chosen columns of WInput
RECURSIVE SparsifyInput(_, _, _, _)
SparsifyInput(WIn, n, nb, g) ==
    IF n > Len(WIn) THEN [M |-> WIn, g |-> g]
    ELSE LET cols == Len(WIn[n])
             sh == Shuffle([i \in 1..cols |-> i], cols, g)
             keep == {sh.p[i] : i \in 1..nb}
             row == [j \in 1..cols |-> IF j \in keep THEN WIn[n][j] ELSE 0]
         IN  SparsifyInput([i \in 1..Len(WIn) |-> IF i = n THEN row ELSE WIn[i]], n + 1, nb, sh.g)

\* M * v with numpy's broadcasting of the vector v over the rows of M;
\* a ValueError (err) when the shapes do not broadcast
BroadcastRows(M, v) ==
    LET c == IF Len(M) = 0 THEN 0 ELSE Len(M[1]) IN
    IF Len(v) = c THEN [err |-> FALSE, M |-> [i \in 1..Len(M) |-> [j \in 1..c |-> FMul(M[i][j], v[j])]]]
    ELSE IF Len(v) = 1 THEN [err |-> FALSE, M |-> [i \in 1..Len(M) |-> [j \in 1..c |-> FMul(M[i][j], v[1])]]]
    ELSE IF c = 1 THEN [err |-> FALSE, M |-> [i \in 1..Len(M) |-> [j \in 1..Len(v) |-> FMul(M[i][1], v[j])]]]
    ELSE [err |-> TRUE, M |-> M]

\* An object of which construction failed
NoInstance == [exists |-> FALSE]

\* lines 189-250: the recurrent matrix from the draws d1 (entries) and d2
\* (mask): [W, eig |-> the dominant eigenvalue magnitude divided by, g]
GenerateW(a, d1, d2) ==
    LET n == a.n_reservoir
        W0 == Reshape([i \in 1..(n * n) |->
                          IF a.weightGeneration = "naive" THEN d1.vals[i] - Half
                          ELSE d1.vals[i] \div 2], n, n)
        masked == MaskMat(W0, d2.vals, a.reservoirDensity)
        eig == MaxAbsEig(masked)
        \* B.power(-1, rnd.random_integers(n, n)): the scalar (-1)^n
        sign == IF a.weightGeneration = "naive" \/ n % 2 = 0 THEN One ELSE -One
    IN  [W |-> MatScale(MatScale(masked, NpDiv(a.spectralRadius, eig)), sign),
         eig |-> eig, g |-> d2.g]

CreateW(a, g, d1) ==
    IF a.weightGeneration = "custom" THEN [W |-> a.customW, eig |-> One, g |-> g]
    ELSE GenerateW(a, d1, Draws(d1.g, a.n_reservoir * a.n_reservoir, a.weightGeneration = "advanced"))

\* lines 257-271: the input matrix from the draws d3: [WInput, sampled, g]
GenerateWInput(a, expanded, d3) ==
    LET n == a.n_reservoir
        sampled == Reshape([i \in 1..(n * (1 + a.n_input)) |-> d3.vals[i] - Half], n, 1 + a.n_input)
        sp == IF a.input_density # One
              THEN SparsifyInput(sampled, 1, FMul(a.input_density, a.n_input * One) \div One, d3.g)
              ELSE [M |-> sampled, g |-> d3.g]
    IN  [WInput |-> BroadcastRows(sp.M, expanded).M, sampled |-> sp.M, g |-> sp.g]

CreateWInput(a, expanded, g) ==
    IF a.weightGeneration = "custom"
    THEN [WInput |-> a.customWInput, sampled |-> a.customWInput, g |-> g]
    ELSE GenerateWInput(a, expanded, Draws(g, a.n_reservoir * (1 + a.n_input), TRUE))

\* lines 273-278: the feedback matrix from the draws d4: [hasFeedback, WFeedback, g]
CreateWFeedback(a, g, d4) ==
    IF a.feedback
    THEN [hasFeedback |-> TRUE,
          WFeedback |-> MatScale(Reshape([i \in 1..(a.n_reservoir * (1 + a.n_output)) |-> d4.vals[i] - Half],
                                         a.n_reservoir, 1 + a.n_output), a.feedbackScaling),
          g |-> d4.g]
    ELSE [hasFeedback |-> FALSE, WFeedback |-> <<>>, g |-> g]

\* The instance that __init__ leaves behind, given the matrices
NewInstance(a, expanded, w, wi, wf) ==
    [outcome |-> "ok", g |-> wf.g,
     esn |-> [exists |-> TRUE,
              n_input |-> a.n_input, n_reservoir |-> a.n_reservoir, n_output |-> a.n_output,
              spectralRadius |-> a.spectralRadius, spectralRadiusIsNp |-> FALSE,
              noiseLevel |-> a.noiseLevel, reservoirDensity |-> a.reservoirDensity,
              leakingRate |-> a.leakingRate, feedbackScaling |-> a.feedbackScaling,
              input_density |-> a.input_density,
              inputScaling |-> <<One>>, inputScalingIsScalar |-> TRUE,
              expandedInputScaling |-> expanded,
              bias |-> a.bias, outputBias |-> a.outputBias,
              outputInputScaling |-> a.outputInputScaling,
              W |-> w.W, WInput |-> wi.WInput,
              hasFeedback |-> wf.hasFeedback, WFeedback |-> wf.WFeedback,
              \* set by the subclass that owns the readout
              x |-> Zeros(a.n_reservoir), WOut |-> a.WOut, solver |-> a.solver,
              \* history, for the statements about the setters
              eigAtConstruction |-> w.eig,
              WAtConstruction |-> w.W, WInputSampled |-> wi.sampled]]

CreateFeedbackStage(a, expanded, w, wi) ==
    NewInstance(a, expanded, w, wi,
                CreateWFeedback(a, wi.g, Draws(wi.g, a.n_reservoir * (1 + a.n_output), TRUE)))

CreateInputStage(a, expanded, w) ==
    CreateFeedbackStage(a, expanded, w, CreateWInput(a, expanded, w.g))

\* _createReservoir (lines 187-278) and the instance it completes
\* [outcome, esn, g]
CreateReservoir(a, expanded, g) ==
    IF a.weightGeneration \notin {"naive", "advanced", "custom"}
    THEN [outcome |-> "ValueError", esn |-> NoInstance, g |-> g]
    ELSE CreateInputStage(a, expanded,
            CreateW(a, g, Draws(g, a.n_reservoir * a.n_reservoir, FALSE)))

\* BaseESN.__init__ (lines 18-58): [outcome, esn, g].  a.inputScaling is
\* None, or Some(array) for a scalar or a vector.
BaseESNInit(a, g) ==
    \* line 40 reads self._inputScaling, which only line 39 has assigned
    IF ~a.inputScaling.isNone THEN [outcome |-> "AttributeError", esn |-> NoInstance, g |-> g]
    ELSE CreateReservoir(a, <<One>> \o Ones(a.n_input),
                         IF a.randomSeed.isNone THEN g ELSE NpSeed(g, a.randomSeed.v))

\* The constructor's defaults (line 19-23) with the caller's choices c
CtorArgs(c) ==
    [n_input |-> c.n_input, n_reservoir |-> c.n_reservoir, n_output |-> 1,
     spectralRadius |-> c.spectralRadius, noiseLevel |-> c.noiseLevel,
     inputScaling |-> c.inputScaling, leakingRate |-> c.leakingRate, feedbackScaling |-> One,
     reservoirDensity |-> c.reservoirDensity, randomSeed |-> c.randomSeed,
     weightGeneration |-> c.weightGeneration, bias |-> One, outputBias |-> One,
     outputInputScaling |-> One, feedback |-> c.feedback, input_density |-> c.input_density,
     customW |-> ZerosMat(c.n_reservoir, c.n_reservoir),
     customWInput |-> ZerosMat(c.n_reservoir, 1 + c.n_input),
     WOut |-> [i \in 1..1 |-> [j \in 1..(1 + c.n_input + c.n_reservoir) |-> IF j = 1 THEN 0 ELSE c.readout]],
     solver |-> c.solver]

-----------------------------------------------------------------------------
(* The setters *)

\* a / b of two numbers: of two Python floats a ZeroDivisionError (err) when
\* b is 0, and numpy's division when one of them is a numpy scalar
PyDiv(a, b, numpyScalars) ==
    IF b = 0 /\ ~numpyScalars THEN [err |-> TRUE, v |-> 0]
    ELSE [err |-> FALSE, v |-> NpDiv(a, b)]

\* x * y or x / y of two numpy floats
ElementOp(op, x, y) == IF op = "*" THEN FMul(x, y) ELSE NpDiv(x, y)

\* a * b or a / b of two arrays of shape (n,) with numpy's broadcasting, or a
\* ValueError (err)
BroadcastVec(op, a, b) ==
    IF Len(a) = Len(b) THEN [err |-> FALSE, v |-> [i \in 1..Len(a) |-> ElementOp(op, a[i], b[i])]]
    ELSE IF Len(b) = 1 THEN [err |-> FALSE, v |-> [i \in 1..Len(a) |-> ElementOp(op, a[i], b[1])]]
    ELSE IF Len(a) = 1 THEN [err |-> FALSE, v |-> [i \in 1..Len(b) |-> ElementOp(op, a[1], b[i])]]
    ELSE [err |-> TRUE, v |-> <<>>]

\* setSpectralRadius (lines 61-63): [outcome, esn]; k is the quotient of line 62
SpectralRadiusSet(e, newSpectralRadius, isNp, k) ==
    IF k.err THEN [outcome |-> "ZeroDivisionError", esn |-> e]
    ELSE [outcome |-> "ok",
          esn |-> [e EXCEPT !.W = MatScale(e.W, k.v), !.spectralRadius = newSpectralRadius,
                            !.spectralRadiusIsNp = isNp]]

setSpectralRadius(e, newSpectralRadius, isNp) ==
    SpectralRadiusSet(e, newSpectralRadius, isNp,
                      PyDiv(newSpectralRadius, e.spectralRadius, isNp \/ e.spectralRadiusIsNp))

\* setLeakingRate (lines 66-67)
setLeakingRate(e, newLeakingRate) ==
    [outcome |-> "ok", esn |-> [e EXCEPT !.leakingRate = newLeakingRate]]

\* lines 72-73, given the vector assigned in line 71, the quotient of line 72
\* and the product of line 72
InputScalingSet(e, new, expanded, q, m) ==
    IF q.err \/ m.err
    THEN [outcome |-> "ValueError", esn |-> [e EXCEPT !.expandedInputScaling = expanded]]
    ELSE [outcome |-> "ok",
          esn |-> [e EXCEPT !.expandedInputScaling = expanded, !.WInput = m.M,
                            !.inputScaling = new.v, !.inputScalingIsScalar = IsScalar(new)]]

InputScalingQuotient(e, new, expanded, q) ==
    InputScalingSet(e, new, expanded, q,
                    IF q.err THEN [err |-> TRUE, M |-> <<>>] ELSE BroadcastRows(e.WInput, q.v))

\* line 71-73, given the product of line 70
InputScalingProduct(e, new, local) ==
    IF local.err THEN [outcome |-> "ValueError", esn |-> e]
    ELSE InputScalingQuotient(e, new, <<One>> \o local.v,
                              BroadcastVec("/", <<One>> \o local.v, e.inputScaling))

\* setInputScaling (lines 69-73): [outcome, esn]; new is Scalar(<<s>>) or
\* Some(vector)
setInputScaling(e, new) ==
    InputScalingProduct(e, new, BroadcastVec("*", Ones(e.n_input), e.inputScaling))

\* setFeedbackScaling (lines 75-77); k is the quotient of line 76
FeedbackScalingSet(e, newFeedbackScaling, k) ==
    IF k.err THEN [outcome |-> "ZeroDivisionError", esn |-> e]
    \* None * float
    ELSE IF ~e.hasFeedback THEN [outcome |-> "TypeError", esn |-> e]
    ELSE [outcome |-> "ok",
          esn |-> [e EXCEPT !.WFeedback = MatScale(e.WFeedback, k.v),
                            !.feedbackScaling = newFeedbackScaling]]

setFeedbackScaling(e, newFeedbackScaling) ==
    FeedbackScalingSet(e, newFeedbackScaling, PyDiv(newFeedbackScaling, e.feedbackScaling, FALSE))

-----------------------------------------------------------------------------
(* The state update *)

\* The default activation B.tanh, tabulated in quarters: One * tanh(v / One)
Tanh(v) ==
    IF IsNaN(v) THEN NaN
    ELSE LET m == Abs(v)
             t == IF m <= 3 THEN m ELSE IF m <= 5 THEN 3 ELSE One
         IN  Sign(v) * t

\* calculateLinearNetworkTransmissions (lines 281-285)
calculateLinearNetworkTransmissions(e, u, x) ==
    VecAdd(Dot(e.WInput, <<e.bias>> \o u), Dot(e.W, x))

\* lines 300-301 (314-316, 324-326): x *= 1 - leakingRate; x += leakingRate *
\* activation(transmission + noise), one noise draw for the whole vector
Leak(e, x, transmission, g) ==
    LET d == BRand(g)
        noise == FMul(d.v - Half, e.noiseLevel)
    IN  [x |-> [i \in 1..Len(x) |->
                    FAdd(FMul(One - e.leakingRate, x[i]),
                         FMul(e.leakingRate, Tanh(FAdd(transmission[i], noise))))],
         g |-> d.g]

\* inputData.reshape(n, 1): "ok", or the exception raised
ReshapeOutcome(v, n) ==
    IF v.isNone THEN "AttributeError"
    ELSE IF Len(v.v) # n THEN "ValueError"
    ELSE "ok"

\* BaseESN.update (lines 290-328) on the array x, which it changes in place:
\* [outcome, x |-> the array afterwards, u |-> the value returned, g]
update(e, inputData, outputData, x, g) ==
    LET usesInput == ~e.hasFeedback \/ e.n_input # 0
        inOk == IF usesInput THEN ReshapeOutcome(inputData, e.n_input) ELSE "ok"
        outOk == IF e.hasFeedback THEN ReshapeOutcome(outputData, e.n_output) ELSE "ok"
        err == IF inOk # "ok" THEN inOk ELSE outOk
        tr == VecAdd(IF usesInput THEN calculateLinearNetworkTransmissions(e, inputData.v, x)
                     ELSE Dot(e.W, x),
                     IF e.hasFeedback THEN Dot(e.WFeedback, <<e.outputBias>> \o outputData.v)
                     ELSE Zeros(e.n_reservoir))
    IN  IF err # "ok" THEN [outcome |-> err, x |-> x, u |-> <<>>, g |-> g]
        ELSE [outcome |-> "ok", u |-> IF usesInput THEN inputData.v ELSE <<>>]
             @@ Leak(e, x, tr, g)

-----------------------------------------------------------------------------
(* Sequence propagation *)

\* The readout of lines 128-131 and 147-150: the linear map WOut (for the
\* sklearn solvers the ridge model's predict, a linear map as well)
Predict(e, ext) == Dot(e.WOut, ext)

\* B.empty: a row nothing has been written to
Unwritten == <<>>

\* One pass of the loop of lines 107-113 (no feedback) on the locals s, after
\* the update of line 108 has ended as up
AfterUpdateNoFeedback(e, a, s, up) ==
    LET col == <<e.outputBias>> \o VecScale(e.outputInputScaling, up.u) \o up.x
    IN  IF up.outcome # "ok" THEN [s EXCEPT !.outcome = up.outcome]
        ELSE [s EXCEPT !.x = up.x, !.g = up.g, !.t = s.t + 1,
                       !.xSelf = IF a.x.isNone THEN up.x ELSE s.xSelf,
                       !.stateLog = Append(s.stateLog, up.x),
                       !.uLog = Append(s.uLog, up.u),
                       !.X = IF s.t >= a.transientTime
                             THEN [s.X EXCEPT ![s.t - a.transientTime + 1] = col] ELSE s.X]

StepNoFeedback(e, a, s) ==
    \* inputData[t] of None
    IF a.inputData.isNone THEN [s EXCEPT !.outcome = "TypeError"]
    ELSE AfterUpdateNoFeedback(e, a, s, update(e, Some(a.inputData.v[s.t + 1]), None, s.x, s.g))

\* The locals after lines 122-125 (141-144): the update has ended as up, and
\* col is the column written to X
Recorded(e, a, s, up, col) ==
    [s EXCEPT !.x = up.x, !.g = up.g, !.fbLog = Append(s.fbLog, s.previousOutputData),
              !.xSelf = IF a.x.isNone THEN up.x ELSE s.xSelf,
              !.stateLog = Append(s.stateLog, up.x),
              !.uLog = Append(s.uLog, up.u),
              !.X = IF s.t >= a.transientTime
                    THEN [s.X EXCEPT ![s.t - a.transientTime + 1] = col] ELSE s.X]

\* lines 126-135 on the locals s1: the prediction from the array `from`, or
\* the next target output
FeedbackNoInput(e, a, s1, from) ==
    IF a.outputData.isNone
    THEN [s1 EXCEPT !.previousOutputData = Predict(e, from), !.t = s1.t + 1,
                    !.predLog = Append(s1.predLog, [t |-> s1.t, from |-> from, y |-> Predict(e, from)]),
                    !.Y = IF s1.t >= a.transientTime
                          THEN [s1.Y EXCEPT ![s1.t - a.transientTime + 1] = Predict(e, from)]
                          ELSE s1.Y]
    ELSE IF s1.t >= Len(a.outputData.v) THEN [s1 EXCEPT !.outcome = "IndexError"]
    ELSE [s1 EXCEPT !.previousOutputData = a.outputData.v[s1.t + 1], !.t = s1.t + 1]

\* One pass of the loop of lines 121-138 (feedback, inputData is None)
AfterUpdateFbNoInput(e, a, s, up) ==
    IF up.outcome # "ok"
    THEN [s EXCEPT !.outcome = up.outcome, !.fbLog = Append(s.fbLog, s.previousOutputData)]
    ELSE IF s.t >= a.transientTime /\ 1 + Len(up.x) # 1 + e.n_input + e.n_reservoir
    THEN [s EXCEPT !.outcome = "ValueError", !.x = up.x, !.g = up.g,
                   !.xSelf = IF a.x.isNone THEN up.x ELSE s.xSelf,
                   !.fbLog = Append(s.fbLog, s.previousOutputData)]
    ELSE FeedbackNoInput(e, a, Recorded(e, a, s, up, <<e.outputBias>> \o up.x),
                         <<e.outputBias>> \o (IF a.x.isNone THEN up.x ELSE s.xSelf))

StepFbNoInput(e, a, s) ==
    AfterUpdateFbNoInput(e, a, s, update(e, None, Some(s.previousOutputData), s.x, s.g))

\* lines 145-153 with the test of line 145 lost: the prediction is fed back
\* although target outputs were supplied
FeedbackInputIgnoringTargets(e, a, s1, from) ==
    IF s1.t >= Len(s1.Y)
    THEN [s1 EXCEPT !.outcome = "IndexError", !.previousOutputData = Predict(e, from),
                    !.predLog = Append(s1.predLog, [t |-> s1.t, from |-> from, y |-> Predict(e, from)])]
    ELSE [s1 EXCEPT !.previousOutputData = Predict(e, from), !.t = s1.t + 1,
                    !.predLog = Append(s1.predLog, [t |-> s1.t, from |-> from, y |-> Predict(e, from)]),
                    !.Y = [s1.Y EXCEPT ![s1.t + 1] = Predict(e, from)]]

\* lines 145-153 on the locals s1
FeedbackInput(e, a, s1, from) ==
    IF a.outputData.isNone
    THEN IF s1.t >= Len(s1.Y)
         \* Y[t, :] past the last row of Y
         THEN [s1 EXCEPT !.outcome = "IndexError", !.previousOutputData = Predict(e, from),
                         !.predLog = Append(s1.predLog, [t |-> s1.t, from |-> from, y |-> Predict(e, from)])]
         ELSE [s1 EXCEPT !.previousOutputData = Predict(e, from), !.t = s1.t + 1,
                         !.predLog = Append(s1.predLog, [t |-> s1.t, from |-> from, y |-> Predict(e, from)]),
                         !.Y = [s1.Y EXCEPT ![s1.t + 1] = Predict(e, from)]]
    ELSE IF s1.t >= Len(a.outputData.v) THEN [s1 EXCEPT !.outcome = "IndexError"]
    ELSE [s1 EXCEPT !.previousOutputData = a.outputData.v[s1.t + 1], !.t = s1.t + 1]

\* One pass of the loop of lines 140-156 (feedback, inputData given)
AfterUpdateFbInput(e, a, s, up) ==
    IF up.outcome # "ok"
    THEN [s EXCEPT !.outcome = up.outcome, !.fbLog = Append(s.fbLog, s.previousOutputData)]
    ELSE FeedbackInput(e, a,
            Recorded(e, a, s, up, <<e.outputBias>> \o VecScale(e.outputInputScaling, up.u) \o up.x),
            <<e.outputBias>> \o VecScale(e.outputInputScaling, up.u)
                \o (IF a.x.isNone THEN up.x ELSE s.xSelf))

StepFbInput(e, a, s) ==
    AfterUpdateFbInput(e, a, s,
        update(e, Some(a.inputData.v[s.t + 1]), Some(s.previousOutputData), s.x, s.g))

RECURSIVE PropagateLoop(_, _, _, _)
PropagateLoop(e, a, L, s) ==
    IF s.outcome # "run" \/ s.t >= L THEN s
    ELSE PropagateLoop(e, a, L,
            IF ~e.hasFeedback THEN StepNoFeedback(e, a, s)
            ELSE IF a.inputData.isNone THEN StepFbNoInput(e, a, s)
            ELSE StepFbInput(e, a, s))

\* lines 87-94: the number of steps; None when it stays "auto"
InputLength(a) ==
    IF a.inputData.isNone
    THEN (IF a.outputData.isNone THEN a.steps ELSE Some(Len(a.outputData.v)))
    ELSE Some(Len(a.inputData.v))

\* lines 158-164: the loop has ended with the locals s
Finished(s) == IF s.outcome = "run" THEN [s EXCEPT !.outcome = "ok"] ELSE s

\* BaseESN.propagate (lines 83-164): the locals when the call ends, with
\* outcome "ok" (it returned) or the exception it raised
propagate(e, a, g) ==
    LET len == InputLength(a)
        none == [outcome |-> "run", t |-> 0, x |-> IF a.x.isNone THEN e.x ELSE a.x.v,
                 xSelf |-> e.x, g |-> g,
                 previousOutputData |-> Zeros(e.n_output), X |-> <<>>, Y |-> <<>>,
                 fbLog |-> <<>>, predLog |-> <<>>, stateLog |-> <<>>, uLog |-> <<>>]
    IN  IF len.isNone THEN [none EXCEPT !.outcome = "ValueError"]
        \* B.zeros with a negative dimension
        ELSE IF len.v - a.transientTime < 0 THEN [none EXCEPT !.outcome = "ValueError"]
        ELSE Finished(PropagateLoop(e, a, len.v,
                [none EXCEPT !.X = [i \in 1..(len.v - a.transientTime) |->
                                       Zeros(1 + e.n_input + e.n_reservoir)],
                             !.Y = [i \in 1..(len.v - a.transientTime) |-> Unwritten]]))

\* lines 161-164: whether the call returns the pair (X, Y) rather than X
ReturnsY(e, a) == e.hasFeedback /\ a.outputData.isNone

-----------------------------------------------------------------------------
(* The program: one instance, its caller, and the operations *)

NoCall == [op |-> "none"]
NoTwin == [used |-> FALSE]

\* all sequences over S of length at most n
SeqsUpTo(S, n) == UNION {[1..k -> S] : k \in 0..n}
\* arrays of n floats, each taken from vals
Vectors(n, vals) == [1..n -> vals]
\* None, or a time series of at most MaxLen arrays of n floats
OptSeries(n, vals) == {None} \cup {Some(v) : v \in SeqsUpTo(Vectors(n, vals), MaxLen)}

FiniteMat(M) == \A i \in 1..Len(M) : \A j \in 1..Len(M[i]) : IsFinite(M[i][j])

\* The instances the propagation study starts from: constructed by
\* BaseESN.__init__ with a dense 'naive' reservoir of finite weights
PropagationChoices ==
    [n_input : {0, 1}, n_reservoir : {1}, spectralRadius : {One}, noiseLevel : {0, One},
     inputScaling : {None}, leakingRate : {One}, reservoirDensity : {One},
     randomSeed : {Some(1)}, weightGeneration : {"naive"}, feedback : BOOLEAN,
     input_density : {One}, readout : {One}, solver : {"pinv"}]

StartsAs(r) ==
    /\ r.outcome = "ok"
    /\ FiniteMat(r.esn.W)
    /\ esn = r.esn
    /\ rnd = r.g

InitPropagation ==
    /\ \E c \in PropagationChoices :
         StartsAs(BaseESNInit(CtorArgs(c), [np |-> 0, be |-> 0, shared |-> TRUE]))
    /\ pc = "idle"
    /\ ret = NoCall
    /\ twin = NoTwin

\* The call propagate(...) with the arguments a has ended with the locals r
PropagateEnds(a, r) ==
    /\ esn' = [esn EXCEPT !.x = r.xSelf]
    /\ rnd' = r.g
    /\ ret' = [op |-> "propagate", a |-> a, xBefore |-> esn.x,
               hasFeedback |-> esn.hasFeedback, n_input |-> esn.n_input,
               outcome |-> r.outcome, X |-> r.X, Y |-> r.Y,
               returnsY |-> ReturnsY(esn, a), t |-> r.t, xArg |-> r.x,
               fbLog |-> r.fbLog, predLog |-> r.predLog,
               stateLog |-> r.stateLog, uLog |-> r.uLog]

PropagateCall(a) == PropagateEnds(a, propagate(esn, a, rnd))

\* A call of propagate(inputData, outputData, transientTime, x=x, steps=steps)
Propagate ==
    /\ pc = "idle"
    /\ \E inputData \in OptSeries(esn.n_input, {One}),
          outputData \in OptSeries(esn.n_output, {0, One}),
          transientTime \in 0..MaxLen,
          x \in {None, Some(Ones(esn.n_reservoir))},
          steps \in {None, Some(0), Some(MaxLen)} :
         PropagateCall([inputData |-> inputData, outputData |-> outputData,
                        transientTime |-> transientTime, x |-> x, steps |-> steps])
    /\ pc' = "returned"
    /\ UNCHANGED twin

\* The caller is done with what the call returned (or with its exception)
Return ==
    /\ pc = "returned"
    /\ pc' = "idle"
    /\ ret' = NoCall
    /\ UNCHANGED <<rnd, esn, twin>>

\* resetState (lines 80-81)
ResetState ==
    /\ pc = "idle"
    /\ esn.exists
    /\ esn' = [esn EXCEPT !.x = Zeros(Len(esn.x))]
    /\ UNCHANGED <<rnd, pc, ret, twin>>

NextPropagation == Propagate \/ Return \/ ResetState

SpecPropagation == InitPropagation /\ [][NextPropagation]_vars

-----------------------------------------------------------------------------
(* Transient-time estimation *)

DefaultProximityLength == 50

\* isEpsilonClose (lines 332-338): every pair of trajectories within epsilon
isEpsilonClose(x, epsilon) ==
    \A i \in 1..Len(x) : \A j \in 1..Len(x) :
        \A k \in 1..Len(x[i]) : Abs(x[i][k] - x[j][k]) < epsilon

\* lines 362-363 from trajectory i on: update(u, o, x_i) for every x_i in x
RECURSIVE UpdateEach(_, _, _, _, _)
UpdateFrom(e, u, o, s, i, up) ==
    IF up.outcome # "ok" THEN [s EXCEPT !.outcome = up.outcome]
    ELSE UpdateEach(e, u, o, [s EXCEPT !.x[i] = up.x, !.g = up.g], i + 1)

UpdateEach(e, u, o, s, i) ==
    IF i > Len(s.x) THEN [s EXCEPT !.t = s.t + 1]
    ELSE UpdateFrom(e, u, o, s, i, update(e, u, o, s.x[i], s.g))

\* lines 360-361 on the locals s: the input and output of step t
DriveStep(e, a, s) ==
    IF a.inputs.isNone THEN UpdateEach(e, None, None, s, 1)
    \* outputs[t] of None or of a float
    ELSE IF a.outputs.isNone \/ IsScalar(a.outputs) THEN [s EXCEPT !.outcome = "TypeError"]
    ELSE IF s.t >= Len(a.outputs.v) THEN [s EXCEPT !.outcome = "IndexError"]
    ELSE UpdateEach(e, Some(a.inputs.v[s.t + 1]), Some(a.outputs.v[s.t + 1]), s, 1)

\* lines 352-358 on the locals s, close being isEpsilonClose(x, epsilon)
CountStep(e, a, s, close) ==
    IF close /\ s.c >= a.proximityLength
    THEN [s EXCEPT !.outcome = "ok", !.value = Some(s.t - a.proximityLength),
                   !.closeLog = Append(s.closeLog, close)]
    ELSE DriveStep(e, a, [s EXCEPT !.c = IF close THEN s.c + 1 ELSE 0,
                                   !.closeLog = Append(s.closeLog, close),
                                   !.cLog = Append(s.cLog, IF close THEN s.c + 1 ELSE 0)])

RECURSIVE TransientLoop(_, _, _, _)
TransientLoop(e, a, length, s) ==
    IF s.outcome # "run" THEN s
    \* the loop ends and the function returns nothing
    ELSE IF s.t >= length THEN [s EXCEPT !.outcome = "ok"]
    ELSE TransientLoop(e, a, length, CountStep(e, a, s, isEpsilonClose(s.x, a.epsilon)))

\* _calculateTransientTime (lines 348-363) with the arguments a on the
\* trajectories x: the locals when it ends; value is what it returns
privateCalculateTransientTime(e, x, a, g) ==
    LET s0 == [outcome |-> "run", value |-> None, t |-> 0, c |-> 0, x |-> x, g |-> g,
               closeLog |-> <<>>, cLog |-> <<>>]
    IN  IF a.inputs.isNone /\ (a.outputs.isNone \/ IsScalar(a.outputs))
        \* outputs.shape of None or of a float
        THEN [s0 EXCEPT !.outcome = "AttributeError"]
        ELSE TransientLoop(e, a, IF a.inputs.isNone THEN Len(a.outputs.v) ELSE Len(a.inputs.v), s0)

\* calculateTransientTime (lines 341-346): the trajectories from the all-zeros
\* and the all-ones state, and the call of line 346, whose four positional
\* arguments bind to x, inputs, outputs and epsilon
calculateTransientTime(e, inputs, epsilon, proximityLength, g) ==
    privateCalculateTransientTime(e, <<Zeros(e.n_reservoir), Ones(e.n_reservoir)>>,
        [inputs |-> inputs, outputs |-> Scalar(epsilon), epsilon |-> proximityLength * One,
         proximityLength |-> DefaultProximityLength], g)

-----------------------------------------------------------------------------
(* The transient-time study *)

\* a time series of exactly n arrays (each one float 1.0) per step
SeriesOfOnes(n, width) == Some([t \in 1..n |-> Ones(width)])

EstimationChoices ==
    [n_input : {1}, n_reservoir : {1}, spectralRadius : {0, One}, noiseLevel : {0, One},
     inputScaling : {None}, leakingRate : {Half, One}, reservoirDensity : {One},
     randomSeed : {Some(1), Some(2)}, weightGeneration : {"naive"}, feedback : {FALSE},
     input_density : {One}, readout : {One}, solver : {"pinv"}]

InitEstimation ==
    /\ \E c \in EstimationChoices :
         StartsAs(BaseESNInit(CtorArgs(c), [np |-> 0, be |-> 0, shared |-> TRUE]))
    /\ pc = "idle"
    /\ ret = NoCall
    /\ twin = NoTwin

Tolerances == {1, Half, One + 1}

\* The call has ended with the locals r; full is the run of the same loop
\* that never returns early, for the closeness of every step
EstimationEnds(op, a, r, full) ==
    /\ rnd' = r.g
    /\ ret' = [op |-> op, a |-> a, outcome |-> r.outcome, value |-> r.value, t |-> r.t,
               closeLog |-> r.closeLog, cLog |-> r.cLog, closeness |-> full.closeLog]
    /\ pc' = "returned"
    /\ UNCHANGED <<esn, twin>>

\* the arguments a with a proximityLength no sequence reaches
NeverReturning(a) == [a EXCEPT !.proximityLength = MaxEstLen + 1]

\* A call of _calculateTransientTime(x, inputs, outputs, epsilon, proximityLength)
\* on the all-zeros and the all-ones trajectory
PrivateCall(a) ==
    EstimationEnds("_calculateTransientTime", a,
        privateCalculateTransientTime(esn, <<Zeros(esn.n_reservoir), Ones(esn.n_reservoir)>>, a, rnd),
        privateCalculateTransientTime(esn, <<Zeros(esn.n_reservoir), Ones(esn.n_reservoir)>>,
                                      NeverReturning(a), rnd))

PrivateCalculateTransientTime ==
    /\ pc = "idle"
    /\ \E n \in 0..MaxEstLen, epsilon \in Tolerances, proximityLength \in 1..MaxProximity,
          inputsGiven \in BOOLEAN, outputsGiven \in BOOLEAN :
         PrivateCall([inputs |-> IF inputsGiven THEN SeriesOfOnes(n, esn.n_input) ELSE None,
                      outputs |-> IF outputsGiven THEN SeriesOfOnes(n, esn.n_output) ELSE None,
                      epsilon |-> epsilon, proximityLength |-> proximityLength])

\* A call of calculateTransientTime(inputs, epsilon, proximityLength)
PublicCall(a) ==
    EstimationEnds("calculateTransientTime", a,
        calculateTransientTime(esn, a.inputs, a.epsilon, a.proximityLength, rnd),
        privateCalculateTransientTime(esn, <<Zeros(esn.n_reservoir), Ones(esn.n_reservoir)>>,
                                      NeverReturning(a), rnd))

CalculateTransientTime ==
    /\ pc = "idle"
    /\ \E n \in 0..MaxEstLen, epsilon \in Tolerances, proximityLength \in 1..MaxProximity :
         PublicCall([inputs |-> SeriesOfOnes(n, esn.n_input),
                     outputs |-> SeriesOfOnes(n, esn.n_output),
                     epsilon |-> epsilon, proximityLength |-> proximityLength])

NextEstimation == PrivateCalculateTransientTime \/ CalculateTransientTime \/ Return

SpecEstimation == InitEstimation /\ [][NextEstimation]_vars

-----------------------------------------------------------------------------
(* The construction study: constructing instances and calling the setters *)

ConstructionChoices ==
    [n_input : {1, 2}, n_reservoir : ReservoirSizes, spectralRadius : {One}, noiseLevel : {0},
     inputScaling : {None, Scalar(<<One + One>>), Some(<<One, Half>>)},
     leakingRate : {One}, reservoirDensity : {1, One},
     randomSeed : {None, Some(2)}, weightGeneration : {"naive", "advanced", "custom", "random"},
     feedback : BOOLEAN, input_density : {Half, One}, readout : {One}, solver : {"pinv"}]

InitConstruction ==
    /\ rnd \in {g \in Generators : g.shared /\ g.be = 0 /\ g.np \in {0, 1}}
    /\ esn = NoInstance
    /\ pc = "idle"
    /\ ret = NoCall
    /\ twin = NoTwin

\* The constructor, called with the choices c, has ended as r
ConstructEnds(c, r) ==
    /\ esn' = r.esn
    /\ rnd' = r.g
    /\ ret' = [op |-> "__init__", a |-> c, outcome |-> r.outcome,
               eig |-> IF r.esn.exists THEN r.esn.eigAtConstruction ELSE -1]

\* BaseESN(n_input, n_reservoir, n_output, ...)
Construct ==
    /\ pc = "idle" /\ ~esn.exists
    /\ \E c \in ConstructionChoices : ConstructEnds(c, BaseESNInit(CtorArgs(c), rnd))
    /\ pc' = "returned"
    /\ UNCHANGED twin

\* The setter op, called with the argument a, has ended as r
SetterEnds(op, a, r) ==
    /\ esn' = r.esn
    /\ ret' = [op |-> op, a |-> a, outcome |-> r.outcome]
    /\ pc' = "returned"
    /\ UNCHANGED <<rnd, twin>>

SetSpectralRadius ==
    /\ pc = "idle" /\ esn.exists
    /\ \E r \in {0, One, One + One}, isNp \in BOOLEAN :
         SetterEnds("setSpectralRadius", r, setSpectralRadius(esn, r, isNp))

SetLeakingRate ==
    /\ pc = "idle" /\ esn.exists
    /\ \E r \in {Half, One} : SetterEnds("setLeakingRate", r, setLeakingRate(esn, r))

SetInputScaling ==
    /\ pc = "idle" /\ esn.exists
    /\ \E new \in {Scalar(<<One + One>>), Some(VecScale(Half, Ones(esn.n_input)))} :
         SetterEnds("setInputScaling", new, setInputScaling(esn, new))

SetFeedbackScaling ==
    /\ pc = "idle" /\ esn.exists
    /\ \E r \in {0, One + One} : SetterEnds("setFeedbackScaling", r, setFeedbackScaling(esn, r))

NextConstruction ==
    \/ Construct \/ SetSpectralRadius \/ SetLeakingRate \/ SetInputScaling
    \/ SetFeedbackScaling \/ Return

SpecConstruction == InitConstruction /\ [][NextConstruction]_vars

-----------------------------------------------------------------------------
(* The seeding study: two runs of a program that constructs an instance with *)
(* a seed and updates it.  The run held in rnd and esn does nothing else;    *)
(* the run held in twin also constructs and updates another instance.        *)

SeedChoices ==
    [n_input : {1}, n_reservoir : {1}, spectralRadius : {One}, noiseLevel : {0, One},
     inputScaling : {None}, leakingRate : {One}, reservoirDensity : {One},
     randomSeed : {Some(1)}, weightGeneration : {"naive", "advanced"},
     feedback : {FALSE}, input_density : {One}, readout : {One}, solver : {"pinv"}]

OtherChoices ==
    [n_input : {1}, n_reservoir : {1}, spectralRadius : {One}, noiseLevel : {0},
     inputScaling : {None}, leakingRate : {One}, reservoirDensity : {One},
     randomSeed : {None, Some(5)}, weightGeneration : {"naive"},
     feedback : {FALSE}, input_density : {One}, readout : {One}, solver : {"pinv"}]

\* Each run is a process of its own, with the same backend
InitSeeding ==
    /\ rnd \in {g \in Generators : g.np = 0 /\ g.be = 0}
    /\ esn = NoInstance
    /\ twin \in {[used |-> TRUE, rnd |-> h, esn |-> NoInstance, other |-> NoInstance] :
                    h \in {g \in Generators : g.np \in {0, 3} /\ g.be \in {0, 3}
                                               /\ g.shared = rnd.shared}}
    /\ pc = "idle"
    /\ ret = NoCall

\* The constructor has ended as r1 in the one run and as r2 in the other
ConstructedInBothRuns(r1, r2) ==
    /\ esn' = r1.esn
    /\ rnd' = r1.g
    /\ twin' = [twin EXCEPT !.esn = r2.esn, !.rnd = r2.g]

\* Both runs construct the instance, with the same arguments
ConstructInBothRuns ==
    /\ ~esn.exists
    /\ \E c \in SeedChoices :
         ConstructedInBothRuns(BaseESNInit(CtorArgs(c), rnd), BaseESNInit(CtorArgs(c), twin.rnd))
    /\ UNCHANGED <<pc, ret>>

UpdatedInBothRuns(up1, up2) ==
    /\ esn' = [esn EXCEPT !.x = up1.x]
    /\ rnd' = up1.g
    /\ twin' = [twin EXCEPT !.esn.x = up2.x, !.rnd = up2.g]

\* Both runs call update(inputData) of the instance, with the same input
UpdateInBothRuns ==
    /\ esn.exists /\ twin.esn.exists
    /\ \E u \in Vectors(esn.n_input, {0, One}) :
         UpdatedInBothRuns(update(esn, Some(u), None, esn.x, rnd),
                           update(twin.esn, Some(u), None, twin.esn.x, twin.rnd))
    /\ UNCHANGED <<pc, ret>>

OtherConstructed(r) ==
    twin' = [twin EXCEPT !.other = r.esn, !.rnd = r.g]

\* The other run constructs another instance
OtherInstanceConstructed ==
    /\ ~twin.other.exists
    /\ \E c \in OtherChoices : OtherConstructed(BaseESNInit(CtorArgs(c), twin.rnd))
    /\ UNCHANGED <<rnd, esn, pc, ret>>

OtherUpdated(up) ==
    twin' = [twin EXCEPT !.other.x = up.x, !.rnd = up.g]

\* The other run updates its other instance
OtherInstanceUpdated ==
    /\ twin.other.exists
    /\ \E u \in Vectors(twin.other.n_input, {One}) :
         OtherUpdated(update(twin.other, Some(u), None, twin.other.x, twin.rnd))
    /\ UNCHANGED <<rnd, esn, pc, ret>>

NextSeeding ==
    \/ ConstructInBothRuns \/ UpdateInBothRuns
    \/ OtherInstanceConstructed \/ OtherInstanceUpdated

SpecSeeding == InitSeeding /\ [][NextSeeding]_vars

-----------------------------------------------------------------------------
(* Statements about propagate *)

Returned(op) == pc = "returned" /\ ret.op = op

\* The length L of the sequence a call is driven by, when one is determined
HasLength == ~InputLength(ret.a).isNone
SeqLength == InputLength(ret.a).v

\* The call is one of the operating modes of section 4.3: without feedback an
\* input sequence is given; an input sequence is left out only for a
\* reservoir without input dimensions; target outputs cover every step
InMode ==
    /\ HasLength
    /\ ret.a.inputData.isNone => (ret.hasFeedback /\ ret.n_input = 0)
    /\ ~ret.a.outputData.isNone => Len(ret.a.outputData.v) >= SeqLength

\* The extended state of step t (counted from 0), from the state the update
\* of that step produced
ExtendedState(t) ==
    <<esn.outputBias>> \o VecScale(esn.outputInputScaling, ret.uLog[t + 1]) \o ret.stateLog[t + 1]

\* C1: in every operating mode and for all 0 <= T < L, propagate returns a
\* design matrix of exactly L - T columns, column t - T holding the extended
\* state of step t.
C1_DesignMatrixColumns ==
    (Returned("propagate") /\ InMode /\ ret.a.transientTime < SeqLength)
        => /\ ret.outcome = "ok"
           /\ Len(ret.X) = SeqLength - ret.a.transientTime
           /\ \A t \in ret.a.transientTime..(SeqLength - 1) :
                  ret.X[t - ret.a.transientTime + 1] = ExtendedState(t)

\* C4: propagate without feedback and with inputData = None raises, for every
\* outputData and steps, and leaves the reservoir state as it was.
C4_NullInputIsFatal ==
    (Returned("propagate") /\ ~ret.hasFeedback /\ ret.a.inputData.isNone)
        => /\ ret.outcome # "ok"
           /\ esn.x = ret.xBefore

TeacherForced == Returned("propagate") /\ ret.hasFeedback /\ ~ret.a.outputData.isNone

\* C5 as stated: with teacher forcing the feedback passed to the update of
\* step t is the target output of step t, and predict is never invoked.
C5_FeedbackIsTargetOfSameStep ==
    (TeacherForced /\ InMode)
        => /\ \A t \in 0..(Len(ret.fbLog) - 1) : ret.fbLog[t + 1] = ret.a.outputData.v[t + 1]
           /\ ret.predLog = <<>>

\* C5 as amended: with teacher forcing the feedback passed to the update of
\* step 0 is the zero vector and that of step t >= 1 is the target output of
\* step t - 1; the update is invoked at every step of a call that returns;
\* predict is never invoked.
C5_FeedbackIsTargetOfPreviousStep ==
    (TeacherForced /\ InMode)
        => /\ \A t \in 0..(Len(ret.fbLog) - 1) :
                  ret.fbLog[t + 1] = IF t = 0 THEN Zeros(esn.n_output) ELSE ret.a.outputData.v[t]
           /\ ret.outcome = "ok" => Len(ret.fbLog) = SeqLength
           /\ ret.predLog = <<>>

\* A teacher-forced call over two or more steps has returned, and its second
\* update was fed a non-zero target
C5_Witness ==
    /\ TeacherForced /\ InMode
    /\ ret.outcome = "ok"
    /\ Len(ret.fbLog) >= 2
    /\ ret.fbLog[2] # Zeros(esn.n_output)
    /\ ret.a.outputData.v[2] # ret.a.outputData.v[1]

\* C6: in autoregressive generation, for every 0 <= T < L and with or without
\* an explicit x, the prediction of step t is computed from the state the
\* update of step t produced, is the feedback of step t + 1, and is row
\* t - T of the returned output sequence of exactly L - T rows.
C6_AutoregressiveGeneration ==
    (Returned("propagate") /\ ret.hasFeedback /\ ret.a.outputData.isNone /\ InMode
       /\ ret.a.transientTime < SeqLength)
        => /\ ret.outcome = "ok"
           /\ ret.returnsY
           /\ Len(ret.Y) = SeqLength - ret.a.transientTime
           /\ Len(ret.predLog) = SeqLength
           /\ \A t \in 0..(SeqLength - 1) :
                 /\ ret.predLog[t + 1].from = ExtendedState(t)
                 /\ t + 1 < SeqLength => ret.fbLog[t + 2] = ret.predLog[t + 1].y
                 /\ t >= ret.a.transientTime
                       => ret.Y[t - ret.a.transientTime + 1] = ret.predLog[t + 1].y

-----------------------------------------------------------------------------
(* Statements about the transient-time estimation *)

\* The steps (counted from 0) at which a run of n consecutive epsilon-close
\* steps starts in the closeness log
RunStarts(log, n) ==
    {k \in 0..(Len(log) - n) : \A i \in 1..n : log[k + i]}

Least(S) == CHOOSE k \in S : \A m \in S : k <= m

\* C2: the counter is reset at a step that is not epsilon-close and
\* incremented at one that is, and for every driving sequence that holds a run
\* of proximityLength consecutive epsilon-close steps (also one ending at the
\* last step) the call returns the first step of the earliest such run.
C2_ReturnsStartOfEarliestRun ==
    (Returned("_calculateTransientTime") /\ ~ret.a.inputs.isNone /\ ~ret.a.outputs.isNone)
        => /\ \A t \in 1..Len(ret.cLog) :
                  ret.cLog[t] = IF ret.closeLog[t] THEN (IF t = 1 THEN 0 ELSE ret.cLog[t - 1]) + 1
                                ELSE 0
           /\ RunStarts(ret.closeness, ret.a.proximityLength) # {}
                 => /\ ret.outcome = "ok"
                    /\ ret.value = Some(Least(RunStarts(ret.closeness, ret.a.proximityLength)))

\* C3: calculateTransientTime(inputs, epsilon, proximityLength) returns an
\* index of the sequence when the trajectories from the all-zeros and the
\* all-ones state stay within the caller's epsilon for the caller's
\* proximityLength steps, and the non-convergence outcome (no index) when
\* they never do.
C3_PublicEstimationReports ==
    Returned("calculateTransientTime")
        => /\ ret.outcome = "ok"
           /\ IF RunStarts(ret.closeness, ret.a.proximityLength) # {}
              THEN ~ret.value.isNone /\ ret.value.v \in 0..(Len(ret.a.inputs.v) - 1)
              ELSE ret.value.isNone

-----------------------------------------------------------------------------
(* Statements about construction, the setters and seeding *)

\* The vector that the inputScaling o (a scalar or a vector) stands for
ScalingVector(o, n) ==
    IF o.isNone THEN Ones(n) ELSE IF IsScalar(o) THEN VecScale(o.v[1], Ones(n)) ELSE o.v

\* The constructor was called with a known strategy and an inputScaling that
\* is omitted, a scalar, or a vector of length n_input
WellConfigured(c) ==
    /\ c.weightGeneration \in {"naive", "advanced", "custom"}
    /\ c.inputScaling.isNone \/ IsScalar(c.inputScaling) \/ Len(c.inputScaling.v) = c.n_input

\* C7: the derived vector is [1.0] ++ inputScaling: construction with inputScaling
\* omitted, a scalar or a vector of length n_input succeeds and leaves
\* [1.0] ++ inputScaling, and every setInputScaling(new) succeeds and leaves
\* [1.0] ++ new and WInput as the sampled matrix scaled row-wise by that vector
C7_ExpandedInputScaling ==
    /\ (Returned("__init__") /\ WellConfigured(ret.a)) =>
         /\ ret.outcome = "ok"
         /\ esn.exists
         /\ esn.expandedInputScaling = <<One>> \o ScalingVector(ret.a.inputScaling, ret.a.n_input)
    /\ Returned("setInputScaling") =>
         /\ ret.outcome = "ok"
         /\ esn.expandedInputScaling = <<One>> \o ScalingVector(ret.a, esn.n_input)
         /\ esn.WInput = BroadcastRows(esn.WInputSampled, esn.expandedInputScaling).M

\* C9: when the generated recurrent matrix has a dominant eigenvalue
\* magnitude of exactly zero, construction reports an error and leaves no
\* instance
C9_ZeroEigenvalueIsReported ==
    (/\ Returned("__init__")
     /\ ret.a.weightGeneration \in {"naive", "advanced"}
     /\ ret.eig = 0)
    => (ret.outcome # "ok" /\ ~esn.exists)

\* C10: after construction with a generating strategy and any sequence of
\* setSpectralRadius calls, every call has completed without error and W is
\* the unit-radius base matrix scaled by the configured spectralRadius (the
\* instances are constructed with spectralRadius 1.0, so the base matrix is
\* the matrix at construction)
C10_SpectralRadiusScalesBase ==
    (esn.exists /\ esn.eigAtConstruction # 0 /\ FiniteMat(esn.WAtConstruction)) =>
        /\ Returned("setSpectralRadius") => ret.outcome = "ok"
        /\ esn.W = MatScale(esn.WAtConstruction, esn.spectralRadius)

\* C8: two runs that construct the instance with the same seed and apply the
\* same updates have the same matrices and states, whatever the other run
\* does with another instance in between
C8_SeedDeterminesInstance ==
    (esn.exists /\ twin.used /\ twin.esn.exists) => esn = twin.esn

====
